---- MODULE Spec2Model ----
(***************************************************************************)
(* Model of Polynomial<int> ("19 Utilities/Polynomial.cpp"): a dense       *)
(* polynomial that owns a heap buffer `terms` of degree_ + 1 coefficients, *)
(* index i holding the coefficient of x^i.                                 *)
(*                                                                         *)
(* A polynomial value is the record [terms, degree_]; terms is a function  *)
(* over 0 .. n-1 (the allocated elements).  A moved-from instance has      *)
(* degree_ = -1 and no addressable element.                                *)
(***************************************************************************)
EXTENDS Integers, Sequences, FiniteSets, TLC

VARIABLES p, q, op, res, objs, bufs, input

vars == <<p, q, op, res, objs, bufs, input>>

\* ------------------------------------------------------------------ bounds
MaxLen == 3        \* longest initializer list
MaxExp == 4        \* exponents read are drawn from -MaxExp .. MaxExp

Coeffs == {-4, 0, 1, 2, 3}      \* coefficient values of the unary checks
SmallCoeffs == {-1, 0, 2}       \* coefficient values of the binary checks

Lists(S) == UNION {[1..n -> S] : n \in 1..MaxLen}

Max(a, b) == IF a < b THEN b ELSE a

\* ----------------------------------------------------------- construction
\* new T[n]{0}: one initializer is given, so fewer than one element (or a
\* negative size) makes the new-expression throw std::bad_array_new_length.
NewZeroed(n) ==
    IF n < 1 THEN [status |-> "bad_array_new_length", at |-> <<>>]
    ELSE [status |-> "ok", at |-> [i \in 0..(n - 1) |-> 0]]

\* Polynomial(std::initializer_list<T>): the k-th listed value (1-based) is
\* stored at index degree_ - (k - 1).
ListCtor(coeffs) ==
    LET degree_ == Len(coeffs) - 1
    IN  [terms |-> [i \in 0..degree_ |-> coeffs[degree_ - i + 1]],
         degree_ |-> degree_]

\* State of the source of a move: terms = nullptr, degree_ = -1.
MovedFrom == [terms |-> <<>>, degree_ |-> -1]

IsPoly(x) == x.degree_ >= 0

\* ---------------------------------------------------------------- reading
GetOffByOne(poly, exp) ==
    IF exp < poly.degree_ /\ exp >= 0 THEN poly.terms[exp] ELSE 0

\* T operator[](int exp) const
Get(poly, exp) ==
    IF exp <= poly.degree_ /\ exp >= 0 THEN poly.terms[exp] ELSE 0

\* ------------------------------------------------------------- arithmetic
Thrown(r) == [status |-> r.status, poly |-> MovedFrom]
Ok(terms, degree_) == [status |-> "ok", poly |-> [terms |-> terms, degree_ |-> degree_]]

PlusOwnDegree(a, b) ==
    LET max_degree == a.degree_
        buf == NewZeroed(max_degree + 1)
    IN  IF buf.status # "ok" THEN Thrown(buf)
        ELSE Ok([i \in 0..max_degree |-> Get(a, i) + Get(b, i)], max_degree)

\* Polynomial operator+(const Polynomial& other) const
Plus(a, b) ==
    LET max_degree == Max(a.degree_, b.degree_)
        buf == NewZeroed(max_degree + 1)
    IN  IF buf.status # "ok" THEN Thrown(buf)
        ELSE Ok([i \in 0..max_degree |-> Get(a, i) + Get(b, i)], max_degree)

MinusAdds(a, b) ==
    LET max_degree == Max(a.degree_, b.degree_)
        buf == NewZeroed(max_degree + 1)
    IN  IF buf.status # "ok" THEN Thrown(buf)
        ELSE Ok([i \in 0..max_degree |-> Get(a, i) + Get(b, i)], max_degree)

\* Polynomial operator-(const Polynomial& other) const
Minus(a, b) ==
    LET max_degree == Max(a.degree_, b.degree_)
        buf == NewZeroed(max_degree + 1)
    IN  IF buf.status # "ok" THEN Thrown(buf)
        ELSE Ok([i \in 0..max_degree |-> Get(a, i) - Get(b, i)], max_degree)

\* The two nested loops of operator*: the buffer after the iterations from
\* (i, j) onwards, in the order the loops run them.
RECURSIVE MulLoop(_, _, _, _, _)
MulLoop(a, b, i, j, acc) ==
    IF i > a.degree_ THEN acc
    ELSE IF j > b.degree_ THEN MulLoop(a, b, i + 1, 0, acc)
    ELSE MulLoop(a, b, i, j + 1,
                 [acc EXCEPT ![i + j] = @ + a.terms[i] * b.terms[j]])

RECURSIVE MulLoopAssign(_, _, _, _, _)
MulLoopAssign(a, b, i, j, acc) ==
    IF i > a.degree_ THEN acc
    ELSE IF j > b.degree_ THEN MulLoopAssign(a, b, i + 1, 0, acc)
    ELSE MulLoopAssign(a, b, i, j + 1,
                       [acc EXCEPT ![i + j] = a.terms[i] * b.terms[j]])

TimesAssign(a, b) ==
    LET new_degree == a.degree_ + b.degree_
        buf == NewZeroed(new_degree + 1)
    IN  IF buf.status # "ok" THEN Thrown(buf)
        ELSE Ok(MulLoopAssign(a, b, 0, 0, buf.at), new_degree)

\* Polynomial operator*(const Polynomial& other) const
Times(a, b) ==
    LET new_degree == a.degree_ + b.degree_
        buf == NewZeroed(new_degree + 1)
    IN  IF buf.status # "ok" THEN Thrown(buf)
        ELSE Ok(MulLoop(a, b, 0, 0, buf.at), new_degree)

\* bool operator==(const Polynomial& other) const
Equals(a, b) ==
    IF a.degree_ # b.degree_ THEN FALSE
    ELSE \A i \in 0..a.degree_ : a.terms[i] = b.terms[i]

\* Polynomial derivative() const
Derivative(a) ==
    LET buf == NewZeroed(a.degree_)
    IN  IF buf.status # "ok" THEN Thrown(buf)
        ELSE Ok([k \in 0..(a.degree_ - 1) |-> a.terms[k + 1] * (k + 1)],
                a.degree_ - 1)

\* T's operator/ for int: the quotient truncated towards zero (b > 0).
IntDiv(a, b) == IF a >= 0 THEN a \div b ELSE -((-a) \div b)

\* Polynomial integral() const
Integral(a) ==
    LET buf == NewZeroed(a.degree_ + 2)
    IN  IF buf.status # "ok" THEN Thrown(buf)
        ELSE Ok([k \in 0..(a.degree_ + 1) |->
                    IF k = 0 THEN 0 ELSE IntDiv(a.terms[k - 1], k)],
                a.degree_ + 1)

\* abs/<, >= and the decimal rendering of operator<<(std::ostream&, int)
Abs(n) == IF n < 0 THEN -n ELSE n

\* One iteration of the loop of operator<<: what term i appends to the stream.
OutputTerm(poly, i, first) ==
    (IF ~first /\ poly.terms[i] >= 0 THEN " + " ELSE "")
    \o (IF poly.terms[i] < 0 THEN " - " ELSE "")
    \o (IF Abs(poly.terms[i]) # 1 \/ i = 0 THEN ToString(Abs(poly.terms[i])) ELSE "")
    \o (IF i # 0 THEN "x" ELSE "")
    \o (IF i > 1 THEN "^" \o ToString(i) ELSE "")

RECURSIVE OutputLoop(_, _, _)
OutputLoop(poly, i, first) ==
    IF i < 0 THEN ""
    ELSE OutputTerm(poly, i, first) \o OutputLoop(poly, i - 1, FALSE)

OutputSkipsZero(poly) ==
    LET RECURSIVE Loop(_, _)
        Loop(i, first) ==
            IF i < 0 THEN ""
            ELSE IF poly.terms[i] = 0 THEN Loop(i - 1, first)
            ELSE OutputTerm(poly, i, first) \o Loop(i - 1, FALSE)
    IN  Loop(poly.degree_, TRUE)

\* friend std::ostream& operator<<(std::ostream& os, const Polynomial& poly)
Output(poly) == OutputLoop(poly, poly.degree_, TRUE)

\* --------------------------------------------------------- checked states
NoRes == [status |-> "none", poly |-> MovedFrom, value |-> 0, text |-> "",
          equal |-> FALSE]

NoOp == [name |-> "init", exp |-> 0]

\* An operator that threw left its local `result` (default-initialised, terms
\* never assigned) to be destroyed while the exception unwinds: delete[] of an
\* indeterminate pointer.  The exception reaches the caller or the program
\* does anything else.
Outcomes(r) ==
    IF r.status = "ok" THEN {"ok"} ELSE {r.status, "undefined"}

Operands(S) == {ListCtor(l) : l \in Lists(S)} \cup {MovedFrom}

Return(name, r, st) ==
    /\ op' = [name |-> name, exp |-> 0]
    /\ res' = [NoRes EXCEPT !.status = st, !.poly = r.poly]
    /\ UNCHANGED <<p, q, objs, bufs, input>>

\* p3 = p + q
OpPlus ==
    /\ op.name = "init"
    /\ \E st \in Outcomes(Plus(p, q)) : Return("plus", Plus(p, q), st)

\* p3 = p - q
OpMinus ==
    /\ op.name = "init"
    /\ \E st \in Outcomes(Minus(p, q)) : Return("minus", Minus(p, q), st)

\* p3 = p * q
OpTimes ==
    /\ op.name = "init"
    /\ \E st \in Outcomes(Times(p, q)) : Return("times", Times(p, q), st)

\* (p + q) - q == p
PlusMinusEquals(a, b) ==
    LET sum == Plus(a, b)
        diff == IF sum.status = "ok" THEN Minus(sum.poly, b) ELSE sum
    IN  [status |-> diff.status, poly |-> diff.poly,
         equal |-> IF diff.status = "ok" THEN Equals(diff.poly, a) ELSE FALSE]

OpPlusMinus ==
    /\ op.name = "init"
    /\ LET r == PlusMinusEquals(p, q)
       IN  \E st \in Outcomes(r) :
             /\ op' = [name |-> "plusminus", exp |-> 0]
             /\ res' = [NoRes EXCEPT !.status = st, !.poly = r.poly,
                                     !.equal = (st = "ok" /\ r.equal)]
             /\ UNCHANGED <<p, q, objs, bufs, input>>

\* p[exp] on a const polynomial
OpGet ==
    /\ op.name = "init"
    /\ \E exp \in (-MaxExp)..MaxExp :
         /\ op' = [name |-> "get", exp |-> exp]
         /\ res' = [NoRes EXCEPT !.status = "ok", !.value = Get(p, exp)]
         /\ UNCHANGED <<p, q, objs, bufs, input>>

\* p.derivative()
OpDerivative ==
    /\ op.name = "init"
    /\ \E st \in Outcomes(Derivative(p)) : Return("derivative", Derivative(p), st)

\* p.integral()
OpIntegral ==
    /\ op.name = "init"
    /\ \E st \in Outcomes(Integral(p)) : Return("integral", Integral(p), st)

\* os << p
OpOutput ==
    /\ op.name = "init"
    /\ op' = [name |-> "output", exp |-> 0]
    /\ res' = [NoRes EXCEPT !.status = "ok", !.text = Output(p)]
    /\ UNCHANGED <<p, q, objs, bufs, input>>

NoHeap == /\ objs = <<>>
          /\ bufs = <<>>
          /\ input = <<>>

InitArith ==
    /\ p \in Operands(SmallCoeffs)
    /\ q \in Operands(SmallCoeffs)
    /\ op = NoOp
    /\ res = NoRes
    /\ NoHeap

NextArith == OpPlus \/ OpMinus \/ OpTimes \/ OpPlusMinus

SpecArith == InitArith /\ [][NextArith]_vars

InitUnary ==
    /\ p \in Operands(Coeffs)
    /\ q = MovedFrom
    /\ op = NoOp
    /\ res = NoRes
    /\ NoHeap

NextUnary == OpGet \/ OpDerivative \/ OpIntegral \/ OpOutput

SpecUnary == InitUnary /\ [][NextUnary]_vars

\* ---------------------------------------------------------------- parsing
\* The characters of a line are one-character strings; an istringstream is
\* [s, pos, fail]: the line, the 1-based position of the next character and
\* failbit.
IsDigit(c) == c \in {"0", "1", "2", "3", "4", "5", "6", "7", "8", "9"}
DigitVal(c) == CHOOSE d \in 0..9 : ToString(d) = c

\* The position of the first character at or after pos that is not a space
\* (Len(s) + 1 when there is none): the sentry of a formatted extraction.
RECURSIVE SkipWs(_, _)
SkipWs(s, pos) ==
    IF pos <= Len(s) /\ s[pos] = " " THEN SkipWs(s, pos + 1) ELSE pos

\* The digits from pos on: [pos, val, n] after reading n of them.
RECURSIVE ReadDigits(_, _, _, _)
ReadDigits(s, pos, val, n) ==
    IF pos <= Len(s) /\ IsDigit(s[pos])
    THEN ReadDigits(s, pos + 1, 10 * val + DigitVal(s[pos]), n + 1)
    ELSE [pos |-> pos, val |-> val, n |-> n]

\* ss >> int: nothing on a failed stream; else skip spaces, take an optional
\* sign and the digits that follow; failbit when there is no digit.
ReadInt(ss) ==
    IF ss.fail THEN [ss |-> ss, val |-> 0]
    ELSE LET start == SkipWs(ss.s, ss.pos)
             signed == start <= Len(ss.s) /\ ss.s[start] \in {"-", "+"}
             d == ReadDigits(ss.s, IF signed THEN start + 1 ELSE start, 0, 0)
         IN  IF d.n = 0
             THEN [ss |-> [ss EXCEPT !.pos = d.pos, !.fail = TRUE], val |-> 0]
             ELSE [ss |-> [ss EXCEPT !.pos = d.pos],
                   val |-> IF signed /\ ss.s[start] = "-" THEN -d.val ELSE d.val]

\* ss >> char: nothing on a failed stream; else skip spaces and take one
\* character, whatever it is; failbit at the end of the line.
ReadChar(ss) ==
    IF ss.fail THEN ss
    ELSE LET start == SkipWs(ss.s, ss.pos)
         IN  IF start > Len(ss.s) THEN [ss EXCEPT !.pos = start, !.fail = TRUE]
             ELSE [ss EXCEPT !.pos = start + 1]

\* poly[exp] = value through T& operator[](int exp): in range the element is
\* assigned; out of range terms[exp] is written outside the buffer.
Assign(poly, exp, value) ==
    IF exp <= poly.degree_ /\ exp >= 0
    THEN [status |-> "ok", poly |-> [poly EXCEPT !.terms[exp] = value]]
    ELSE [status |-> "undefined", poly |-> poly]

\* The while loop of operator>>: one iteration reads a coefficient, then tries
\* to read two characters and an exponent from the same stream.
RECURSIVE ParseLoop(_, _)
ParseLoop(poly, ss) ==
    LET coeff == ReadInt(ss)
        exp == ReadInt(ReadChar(ReadChar(coeff.ss)))
        done == IF ~exp.ss.fail THEN Assign(poly, exp.val, coeff.val)
                ELSE Assign(poly, 0, coeff.val)
    IN  IF coeff.ss.fail THEN [status |-> "ok", poly |-> poly]
        ELSE IF done.status # "ok" THEN done
        ELSE ParseLoop(done.poly, exp.ss)

\* friend std::istream& operator>>(std::istream& is, Polynomial& poly), on
\* the line std::getline took from the stream
Parse(poly, line) == ParseLoop(poly, [s |-> line, pos |-> 1, fail |-> FALSE])

\* The lines parsed: up to MaxItems items separated by one space, an item a
\* bare number or the triple <number> x ^ <exponent>.
MaxItems == 2
Numbers == {-5, 7, 12}

RECURSIVE Digits(_)
Digits(n) ==
    IF n < 10 THEN <<ToString(n)>> ELSE Digits(n \div 10) \o <<ToString(n % 10)>>

NumChars(n) == IF n < 0 THEN <<"-">> \o Digits(-n) ELSE Digits(n)

Items ==
    [kind : {"bare"}, num : Numbers, exp : {0}]
        \cup [kind : {"triple"}, num : Numbers, exp : 0..(MaxLen - 1)]

ItemChars(it) ==
    IF it.kind = "bare" THEN NumChars(it.num)
    ELSE NumChars(it.num) \o <<" ", "x", " ", "^", " ">> \o NumChars(it.exp)

RECURSIVE Line(_)
Line(items) ==
    IF items = <<>> THEN <<>>
    ELSE IF Len(items) = 1 THEN ItemChars(items[1])
    ELSE ItemChars(items[1]) \o <<" ">> \o Line(Tail(items))

ItemLists == UNION {[1..n -> Items] : n \in 0..MaxItems}

\* is >> p
OpParse ==
    /\ op.name = "init"
    /\ LET r == Parse(p, input.line)
       IN  /\ op' = [name |-> "parse", exp |-> 0]
           /\ p' = r.poly
           /\ res' = [NoRes EXCEPT !.status = r.status, !.poly = r.poly]
    /\ UNCHANGED <<q, objs, bufs, input>>

\* is >> p, then os << p
OpParseOutput ==
    /\ op.name = "parse"
    /\ res.status = "ok"
    /\ op' = [name |-> "parseoutput", exp |-> 0]
    /\ res' = [res EXCEPT !.text = Output(p)]
    /\ UNCHANGED <<p, q, objs, bufs, input>>

\* q keeps the polynomial as it was before the line was parsed into p.
InitParse ==
    /\ p \in {ListCtor(l) : l \in Lists({1})}
    /\ q = p
    /\ op = NoOp
    /\ res = NoRes
    /\ objs = <<>>
    /\ bufs = <<>>
    /\ \E items \in ItemLists : input = [items |-> items, line |-> Line(items)]

NextParse == OpParse \/ OpParseOutput

SpecParse == InitParse /\ [][NextParse]_vars

\* -------------------------------------------------------------- ownership
\* The heap h = [objs, bufs].  bufs is the sequence of the arrays allocated
\* so far, each [data, deletes]: its elements and how many times delete[] was
\* applied to it; a pointer is an index into bufs, nullptr is 0.  objs gives
\* each instance slot [live, terms, degree_].
MaxObjs == 3
MaxBufs == 3
Slots == 1..MaxObjs
nullptr == 0
Dead == [live |-> FALSE, terms |-> nullptr, degree_ |-> 0]
CtorLists == {<<1>>, <<2, 3>>}

\* new T[n], filled by the caller: the pointer is Len(h.bufs) + 1.
New(h, data) ==
    [h EXCEPT !.bufs = Append(@, [data |-> data, deletes |-> 0])]

\* delete[] ptr: nothing for nullptr.
Delete(h, ptr) ==
    IF ptr = nullptr THEN h ELSE [h EXCEPT !.bufs[ptr].deletes = @ + 1]

\* std::copy(other.terms, other.terms + degree_ + 1, terms)
CopyOf(h, other) ==
    [i \in 0..h.objs[other].degree_ |-> h.bufs[h.objs[other].terms].data[i]]

\* Polynomial(std::initializer_list<T> coeffs), on the heap
ListCtorAt(h, this, coeffs) ==
    LET h1 == New(h, ListCtor(coeffs).terms)
    IN  [h1 EXCEPT !.objs[this] = [live |-> TRUE, terms |-> Len(h1.bufs),
                                   degree_ |-> Len(coeffs) - 1]]

\* ~Polynomial()
Dtor(h, this) ==
    [Delete(h, h.objs[this].terms) EXCEPT !.objs[this] = Dead]

\* Polynomial(const Polynomial& other)
CopyCtor(h, this, other) ==
    LET h1 == New(h, CopyOf(h, other))
    IN  [h1 EXCEPT !.objs[this] = [live |-> TRUE, terms |-> Len(h1.bufs),
                                   degree_ |-> h.objs[other].degree_]]

MoveCtorKeepsSource(h, this, other) ==
    [h EXCEPT !.objs[this] = [live |-> TRUE, terms |-> h.objs[other].terms,
                              degree_ |-> h.objs[other].degree_]]

\* Polynomial(Polynomial&& other) noexcept
MoveCtor(h, this, other) ==
    [h EXCEPT !.objs[this] = [live |-> TRUE, terms |-> h.objs[other].terms,
                              degree_ |-> h.objs[other].degree_],
              !.objs[other].terms = nullptr,
              !.objs[other].degree_ = -1]

\* Polynomial& operator=(const Polynomial& other)
CopyAssign(h, this, other) ==
    IF this # other
    THEN LET h1 == Delete(h, h.objs[this].terms)
             h2 == New(h1, CopyOf(h1, other))
         IN  [h2 EXCEPT !.objs[this].degree_ = h.objs[other].degree_,
                        !.objs[this].terms = Len(h2.bufs)]
    ELSE h

\* Polynomial& operator=(Polynomial&& other) noexcept
MoveAssign(h, this, other) ==
    IF this # other
    THEN LET h1 == Delete(h, h.objs[this].terms)
         IN  [h1 EXCEPT !.objs[this].terms = h.objs[other].terms,
                        !.objs[this].degree_ = h.objs[other].degree_,
                        !.objs[other].terms = nullptr,
                        !.objs[other].degree_ = -1]
    ELSE h

Heap == [objs |-> objs, bufs |-> bufs]

Becomes(h, name, this, other) ==
    /\ objs' = h.objs
    /\ bufs' = h.bufs
    /\ op' = [name |-> name, this |-> this, other |-> other]
    /\ UNCHANGED <<p, q, res, input>>

\* Polynomial<int> a = {...};
ListConstruct ==
    \E this \in Slots, coeffs \in CtorLists :
        /\ ~objs[this].live
        /\ Len(bufs) < MaxBufs
        /\ Becomes(ListCtorAt(Heap, this, coeffs), "list", this, this)

\* Polynomial<int> a(b);
CopyConstruct ==
    \E this \in Slots, other \in Slots :
        /\ ~objs[this].live /\ objs[other].live
        /\ Len(bufs) < MaxBufs
        /\ Becomes(CopyCtor(Heap, this, other), "copy", this, other)

\* Polynomial<int> a(std::move(b));
MoveConstruct ==
    \E this \in Slots, other \in Slots :
        /\ ~objs[this].live /\ objs[other].live
        /\ Becomes(MoveCtor(Heap, this, other), "move", this, other)

\* a = b;  (a = a included)
CopyAssignment ==
    \E this \in Slots, other \in Slots :
        /\ objs[this].live /\ objs[other].live
        /\ Len(bufs) < MaxBufs
        /\ Becomes(CopyAssign(Heap, this, other), "copyassign", this, other)

\* a = std::move(b);  (a = std::move(a) included)
MoveAssignment ==
    \E this \in Slots, other \in Slots :
        /\ objs[this].live /\ objs[other].live
        /\ Becomes(MoveAssign(Heap, this, other), "moveassign", this, other)

\* the end of a's lifetime
Destroy ==
    \E this \in Slots :
        /\ objs[this].live
        /\ Becomes(Dtor(Heap, this), "destroy", this, this)

InitOwn ==
    /\ objs = [s \in Slots |-> Dead]
    /\ bufs = <<>>
    /\ op = [name |-> "init", this |-> 0, other |-> 0]
    /\ p = MovedFrom
    /\ q = MovedFrom
    /\ res = NoRes
    /\ input = <<>>

NextOwn ==
    \/ ListConstruct
    \/ CopyConstruct
    \/ MoveConstruct
    \/ CopyAssignment
    \/ MoveAssignment
    \/ Destroy

SpecOwn == InitOwn /\ [][NextOwn]_vars

\* ------------------------------------------------------------------ claims
\* The coefficient of x^i of a polynomial value, zero where none is stored.
Coef(x, i) == IF i \in DOMAIN x.terms THEN x.terms[i] ELSE 0

\* What the const indexed read returned: zero outside [0, degree], the stored
\* coefficient inside, and no failure.
C1_ReadValue ==
    (op.name = "get" /\ IsPoly(p)) =>
        /\ res.status = "ok"
        /\ (op.exp < 0 \/ op.exp > p.degree_) => res.value = 0
        /\ (op.exp \in 0..p.degree_) => res.value = p.terms[op.exp]

\* C1: on a polynomial built by the list constructor, the const indexed read
\* never fails, returns zero for every exponent below 0 or above the degree,
\* returns the stored coefficient for an exponent in [0, degree], and leaves
\* the polynomial as it was.
C1_ConstRead ==
    /\ []C1_ReadValue
    /\ [][op'.name = "get" => p' = p]_vars

C1_Witness ==
    /\ op.name = "get"
    /\ IsPoly(p)
    /\ op.exp > p.degree_
    /\ p.terms[p.degree_] # 0
    /\ res.value = 0

\* C2: for non-empty p and q, p + q and p - q have degree
\* max(degree(p), degree(q)), a buffer of exactly that many plus one
\* coefficients, and at every index the sum (the difference) of the operands'
\* coefficients, an operand counting as zero above its own degree.
C2_PlusMinus ==
    (op.name \in {"plus", "minus"} /\ IsPoly(p) /\ IsPoly(q)) =>
        LET m == Max(p.degree_, q.degree_)
        IN  /\ res.status = "ok"
            /\ res.poly.degree_ = m
            /\ DOMAIN res.poly.terms = 0..m
            /\ \A i \in 0..m :
                 res.poly.terms[i] =
                    IF op.name = "plus" THEN Coef(p, i) + Coef(q, i)
                    ELSE Coef(p, i) - Coef(q, i)

C2_Witness ==
    /\ op.name = "plus"
    /\ IsPoly(p) /\ IsPoly(q)
    /\ p.degree_ < q.degree_
    /\ res.poly.degree_ = q.degree_
    /\ res.poly.terms[q.degree_] # 0

\* The sum of a[i] * b[k - i] over the i in [from, degree(a)] with k - i in
\* [0, degree(b)].
RECURSIVE ConvSum(_, _, _, _)
ConvSum(a, b, k, from) ==
    IF from > a.degree_ THEN 0
    ELSE (IF k - from \in 0..b.degree_ THEN a.terms[from] * b.terms[k - from]
          ELSE 0)
         + ConvSum(a, b, k, from + 1)

\* C3: for non-empty p and q, p * q has degree degree(p) + degree(q) and its
\* coefficient at every index k is the sum of p[i] * q[j] over i + j = k.
C3_Convolution ==
    (op.name = "times" /\ IsPoly(p) /\ IsPoly(q)) =>
        /\ res.status = "ok"
        /\ res.poly.degree_ = p.degree_ + q.degree_
        /\ DOMAIN res.poly.terms = 0..(p.degree_ + q.degree_)
        /\ \A k \in 0..(p.degree_ + q.degree_) :
             res.poly.terms[k] = ConvSum(p, q, k, 0)

C3_Witness ==
    /\ op.name = "times"
    /\ p.degree_ = 2 /\ q.degree_ = 1
    /\ res.poly.degree_ = 3
    /\ res.poly.terms[1] = p.terms[0] * q.terms[1] + p.terms[1] * q.terms[0]
    /\ p.terms[0] * q.terms[1] # 0
    /\ p.terms[1] * q.terms[0] # 0

\* C4 as claimed: for all non-empty p and q, (p + q) - q == p.
C4_RoundTripAlways ==
    (op.name = "plusminus" /\ IsPoly(p) /\ IsPoly(q)) =>
        (res.status = "ok" /\ res.equal)

\* C4: for non-empty p and q, (p + q) - q has degree
\* max(degree(p), degree(q)) and p's coefficients, zero above degree(p); it
\* compares equal to p under operator== exactly when degree(q) <= degree(p).
C4_RoundTrip ==
    (op.name = "plusminus" /\ IsPoly(p) /\ IsPoly(q)) =>
        LET m == Max(p.degree_, q.degree_)
        IN  /\ res.status = "ok"
            /\ res.poly.degree_ = m
            /\ \A i \in 0..m : res.poly.terms[i] = Coef(p, i)
            /\ res.equal <=> (q.degree_ <= p.degree_)

C4_Witness ==
    /\ op.name = "plusminus"
    /\ IsPoly(p) /\ IsPoly(q)
    /\ q.degree_ <= p.degree_
    /\ \E i \in 0..q.degree_ : q.terms[i] # 0
    /\ res.equal

\* C6: multiplying when either operand is empty (degree -1) is rejected with
\* the error InvalidOperand.
C6_EmptyOperandRejected ==
    (op.name = "times" /\ (~IsPoly(p) \/ ~IsPoly(q))) =>
        res.status = "InvalidOperand"

\* C7: the integral of the polynomial built from the list 1, 2 has degree 2
\* and reads 0, 1, 1 at the indices 0, 1, 2.
C7_IntegralOfOneTwo ==
    (op.name = "integral" /\ p = ListCtor(<<1, 2>>)) =>
        /\ res.status = "ok"
        /\ res.poly.degree_ = 2
        /\ Coef(res.poly, 0) = 0
        /\ Coef(res.poly, 1) = 1
        /\ Coef(res.poly, 2) = 1

C9_Derivative ==
    (op.name = "derivative" /\ IsPoly(p)) =>
        /\ res.status = "ok"
        /\ res.poly.degree_ = p.degree_ - 1
        /\ Cardinality(DOMAIN res.poly.terms) = p.degree_
        /\ \A i \in 1..p.degree_ : res.poly.terms[i - 1] = i * p.terms[i]

\* What a line's items say the polynomial is after them, applied in order.
RECURSIVE Stored(_, _)
Stored(poly, items) ==
    IF items = <<>> THEN poly
    ELSE Stored([poly EXCEPT !.terms[IF items[1].kind = "bare" THEN 0
                                      ELSE items[1].exp] = items[1].num],
                Tail(items))

\* C10: parsing a line of bare numbers and triples in any order, every
\* exponent within [0, degree], processes every item: each triple's number is
\* stored at its exponent, each bare number at index 0, later items
\* overwriting earlier ones, and every other coefficient is unchanged.
C10_EveryItemStored ==
    (/\ op.name = "parse"
     /\ IsPoly(q)
     /\ \A k \in DOMAIN input.items : input.items[k].exp <= q.degree_) =>
        /\ res.status = "ok"
        /\ p = Stored(q, input.items)

\* The live instances whose terms is the buffer b.
Owners(b) == {s \in Slots : objs[s].live /\ objs[s].terms = b}

\* C5: after any sequence of constructions, assignments (of an instance to
\* itself included) and destructions, every buffer not yet released is held
\* by exactly one live instance and no released buffer is held or released
\* again; a copy holds the newest buffer, with the source's degree and
\* contents; the source of a move holds no buffer and has degree -1.
C5_ExclusiveOwnership ==
    /\ \A b \in DOMAIN bufs :
         /\ bufs[b].deletes <= 1
         /\ Cardinality(Owners(b)) = IF bufs[b].deletes = 0 THEN 1 ELSE 0
    /\ (op.name \in {"copy", "copyassign"} /\ op.this # op.other) =>
         /\ objs[op.this].terms = Len(bufs)
         /\ objs[op.this].terms # objs[op.other].terms
         /\ objs[op.this].degree_ = objs[op.other].degree_
         /\ \A i \in 0..objs[op.other].degree_ :
              bufs[objs[op.this].terms].data[i]
                 = bufs[objs[op.other].terms].data[i]
    /\ (op.name \in {"move", "moveassign"} /\ op.this # op.other) =>
         /\ objs[op.other].terms = nullptr
         /\ objs[op.other].degree_ = -1

C5_Witness ==
    /\ op.name = "moveassign"
    /\ op.this # op.other
    /\ objs[op.this].terms # nullptr
    /\ \E b \in DOMAIN bufs : bufs[b].deletes = 1
    /\ \E s \in Slots : /\ s \notin {op.this, op.other}
                        /\ objs[s].live
                        /\ objs[s].terms # nullptr

====
